---- MODULE Spec2Model ----
(***************************************************************************)
(* Model of Globe3DView and its nested Camera (src/src/view.py): the scene *)
(* selector, the camera mode, the orbit parameters driven by mouse and     *)
(* wheel events, and the per-frame target resolution of paintGL.           *)
(*                                                                         *)
(* Number representation                                                   *)
(*   theta, phi       half degrees (the code adds dx / 2 and dy / 2 with   *)
(*                    true division, so 2 * angle is an exact integer for  *)
(*                    integer pointer coordinates)                         *)
(*   cameraDistance   an exact rational <<numerator, denominator>> in      *)
(*                    lowest terms with a positive denominator             *)
(*   cameraPosXYZ and the look-at triple                                   *)
(*                    fixed point, Unit = TrigScale^2 per kilometre        *)
(*   target positions integers, kilometres                                 *)
(***************************************************************************)
EXTENDS Integers, Sequences, FiniteSets, TLC

\* ------------------------------------------------------------------ bounds
\* Earth.radius.km, supplied by the controller's Earth object.
EarthRadius == 6
\* |theta| (half degrees) is kept within this bound by the drag guard.
MaxTheta == 3
\* Number of wheel events whose effect is explored.
MaxWheelEvents == 2

\* ------------------------------------------------------- program constants
PhiLimit == 89
EarthOrbitDistance == 20
OtherOrbitDistance == 1
MaxAltitudeFactor == 50

TrigScale == 1000
Unit == TrigScale * TrigScale

minCameraAltitude == EarthRadius + 1
maxCameraAltitude == EarthRadius * MaxAltitudeFactor

\* ------------------------------------------------------------ enumerations
SceneView == {"GLOBE_VIEW", "TRACKING_VIEW", "EXPLORE_VIEW"}
CameraMode == {"STATIC", "ORBIT", "FOLLOW"}

\* Arguments a caller may hand to setScene: the enum members and one value
\* that is not a member.
SceneArgs == SceneView \cup {"NOT_A_SCENE"}

\* ------------------------------------------------------------------ inputs
Origin == <<0, 0, 0>>
SatelliteNames == {"Satellite-1", "Satellite-2"}
\* Positions the ephemeris query may return (km).
SatellitePositions == {<<100, 0, 0>>, <<0, 7, 7>>}
\* Pointer positions delivered with mouse events (pixels).
PointerPositions == {<<0, 0>>, <<3, 200>>}
Buttons == {"LeftButton", "RightButton"}
\* event.angleDelta().y()
ScrollDeltas == {120, 360}

None == <<>>

VARIABLES
    current_scene,      \* Globe3DView.current_scene
    mode,               \* Globe3DView.camera.mode
    theta,              \* Globe3DView.theta, half degrees
    phi,                \* Globe3DView.phi, half degrees
    cameraDistance,     \* Globe3DView.cameraDistance, rational <<n, d>>
    orbitDistance,      \* Globe3DView.orbitDistance
    cameraPosXYZ,       \* Globe3DView.cameraPosXYZ, fixed point
    cameraTarget,       \* Globe3DView.cameraTarget
    isDragging,         \* Globe3DView.isDragging
    lastPos,            \* Globe3DView.lastPos
    satellite_position, \* Globe3DView.satellite_position
    current_satellite,  \* controller.current_satellite.name
    lookAt,             \* arguments of the last gluLookAt issued by Camera.update
    wheelCount,         \* wheel events that changed the distance so far
    lastEvent,          \* name of the handler that ran last
    frameCalls,         \* the calls paintGL made in the last frame, in order
    leftButtonDown      \* the left mouse button is physically held down

vars == <<current_scene, mode, theta, phi, cameraDistance, orbitDistance,
          cameraPosXYZ, cameraTarget, isDragging, lastPos, satellite_position,
          current_satellite, lookAt, wheelCount, lastEvent, frameCalls,
          leftButtonDown>>

\* The orbit parameters of the camera.
orbitVars == <<theta, phi, cameraDistance, orbitDistance, cameraPosXYZ>>

\* ------------------------------------------------------ rational arithmetic
Abs(x) == IF x < 0 THEN -x ELSE x

RECURSIVE GCD(_, _)
GCD(a, b) == IF b = 0 THEN a ELSE GCD(b, a % b)

\* n / d in lowest terms, d # 0.
Rat(n, d) ==
    LET g == GCD(Abs(n), Abs(d))
        s == IF d < 0 THEN -1 ELSE 1
    IN  <<(s * n) \div g, (s * d) \div g>>

RatOfInt(k) == <<k, 1>>
RatLess(p, q) == p[1] * q[2] < q[1] * p[2]
RatLeq(p, q) == p[1] * q[2] <= q[1] * p[2]

\* --------------------------------------------------------------- sin / cos
\* round(TrigScale * sin(k / 2 degrees)) for k = 0 .. 180, at index k + 1.
SinTable == <<
    0, 9, 17, 26, 35, 44, 52, 61, 70, 78, 87, 96,
    105, 113, 122, 131, 139, 148, 156, 165, 174, 182, 191, 199,
    208, 216, 225, 233, 242, 250, 259, 267, 276, 284, 292, 301,
    309, 317, 326, 334, 342, 350, 358, 367, 375, 383, 391, 399,
    407, 415, 423, 431, 438, 446, 454, 462, 469, 477, 485, 492,
    500, 508, 515, 522, 530, 537, 545, 552, 559, 566, 574, 581,
    588, 595, 602, 609, 616, 623, 629, 636, 643, 649, 656, 663,
    669, 676, 682, 688, 695, 701, 707, 713, 719, 725, 731, 737,
    743, 749, 755, 760, 766, 772, 777, 783, 788, 793, 799, 804,
    809, 814, 819, 824, 829, 834, 839, 843, 848, 853, 857, 862,
    866, 870, 875, 879, 883, 887, 891, 895, 899, 903, 906, 910,
    914, 917, 921, 924, 927, 930, 934, 937, 940, 943, 946, 948,
    951, 954, 956, 959, 961, 964, 966, 968, 970, 972, 974, 976,
    978, 980, 982, 983, 985, 986, 988, 989, 990, 991, 993, 994,
    995, 995, 996, 997, 998, 998, 999, 999, 999, 1000, 1000, 1000,
    1000 >>

\* sin and cos of an angle given in half degrees, times TrigScale.
Sin(a) ==
    LET r == a % 720
    IN  IF r <= 180 THEN SinTable[r + 1]
        ELSE IF r <= 360 THEN SinTable[360 - r + 1]
        ELSE IF r <= 540 THEN -SinTable[r - 360 + 1]
        ELSE -SinTable[720 - r + 1]

Cos(a) == Sin(a + 180)

\* A position in km as a fixed-point triple.
Fixed(p) == <<p[1] * Unit, p[2] * Unit, p[3] * Unit>>

\* ---------------------------------------------------------------- helpers
\* The pitch clamp with its lower-bound test left out.
ClampPhi_UpperOnly(p) ==
    IF p > 2 * PhiLimit THEN 2 * PhiLimit ELSE p

\* view.py 876-879: the pitch clamp of updateOrbitCamera (half degrees).
ClampPhi(p) ==
    LET upper == IF p > 2 * PhiLimit THEN 2 * PhiLimit ELSE p
    IN  IF upper < -(2 * PhiLimit) THEN -(2 * PhiLimit) ELSE upper

\* view.py 881-884: the value of the max(min(...)) expression of line 881 is
\* discarded, so only the lower-bound assignment of 883-884 acts.
ClampDistance(d) ==
    IF RatLess(d, RatOfInt(minCameraAltitude)) THEN RatOfInt(minCameraAltitude)
    ELSE d

\* The conversion with the roles of sin(theta) and cos(theta) exchanged.
OrbitEye_ThetaFromX(th, ph, r, target_pos) ==
    << r * Cos(th) * Cos(ph) + target_pos[1] * Unit,
       r * Sin(ph) * TrigScale + target_pos[2] * Unit,
       r * Sin(th) * Cos(ph) + target_pos[3] * Unit >>

\* view.py 886-894: spherical to Cartesian around the target, radius
\* self.orbitDistance.
OrbitEye(th, ph, r, target_pos) ==
    << r * Sin(th) * Cos(ph) + target_pos[1] * Unit,
       r * Sin(ph) * TrigScale + target_pos[2] * Unit,
       r * Cos(th) * Cos(ph) + target_pos[3] * Unit >>

\* view.py 865-868: the distance wheelEvent stores for angleDelta().y() =
\* scrollDistance: d - scrollDistance * (d - min) / (max - min).
ScrolledDistance(d, scrollDistance) ==
    LET span == maxCameraAltitude - minCameraAltitude
    IN  Rat(d[1] * span - scrollDistance * (d[1] - minCameraAltitude * d[2]),
            d[2] * span)

\* The scene-to-mode table with GLOBE_VIEW selecting ORBIT.
ModeOfScene_GlobeOrbit(scene) ==
    CASE scene = "GLOBE_VIEW" -> "ORBIT"
      [] scene = "TRACKING_VIEW" -> "FOLLOW"
      [] scene = "EXPLORE_VIEW" -> "ORBIT"

\* view.py 500-510: the camera mode each to_* function selects.
ModeOfScene(scene) ==
    CASE scene = "GLOBE_VIEW" -> "STATIC"
      [] scene = "TRACKING_VIEW" -> "FOLLOW"
      [] scene = "EXPLORE_VIEW" -> "ORBIT"

\* controller.Earth.upVector, the up vector of the ORBIT look-at.
EarthUpVector == <<0, 0, 1>>

\* ------------------------------------------------------------------- Init
\* The state when Globe3DView.__init__ returns: Camera.__init__ sets STATIC,
\* setScene(EXPLORE_VIEW) selects ORBIT, then the orbit settings are assigned.
Init ==
    /\ current_scene = "EXPLORE_VIEW"
    /\ mode = "ORBIT"
    /\ theta = 0
    /\ phi = 0
    /\ cameraDistance = RatOfInt(0)
    /\ orbitDistance = EarthRadius + 10
    /\ cameraPosXYZ = Fixed(<<0, 0, 20>>)
    /\ cameraTarget = [name |-> "", position |-> Origin]
    /\ isDragging = FALSE
    /\ lastPos = <<0, 0>>
    /\ satellite_position = None
    /\ current_satellite \in SatelliteNames
    /\ lookAt = [eye |-> None, center |-> None, up |-> None]
    /\ wheelCount = 0
    /\ lastEvent = "__init__"
    /\ frameCalls = <<>>
    /\ leftButtonDown = FALSE

\* ----------------------------------------------------------- Camera.update
\* Camera.update with the STATIC branch centred on the camera target.
Camera_update_StaticLooksAtTarget ==
    CASE mode = "STATIC" ->
           [eye |-> Fixed(<<0, 0, 30>>),
            center |-> Fixed(cameraTarget.position), up |-> <<0, 0, 1>>]
      [] mode = "FOLLOW" ->
           [eye |-> Fixed(cameraTarget.position), center |-> Fixed(Origin),
            up |-> <<0, 0, 1>>]
      [] mode = "ORBIT" ->
           [eye |-> cameraPosXYZ, center |-> Fixed(cameraTarget.position),
            up |-> EarthUpVector]

\* view.py 904-932: the gluLookAt arguments issued for the current mode.
Camera_update ==
    CASE mode = "STATIC" ->
           [eye |-> Fixed(<<0, 0, 30>>), center |-> Fixed(Origin),
            up |-> <<0, 0, 1>>]
      [] mode = "FOLLOW" ->
           [eye |-> Fixed(cameraTarget.position), center |-> Fixed(Origin),
            up |-> <<0, 0, 1>>]
      [] mode = "ORBIT" ->
           [eye |-> cameraPosXYZ, center |-> Fixed(cameraTarget.position),
            up |-> EarthUpVector]

\* view.py 936-938
setCameraMode(m) ==
    mode' = IF m \in CameraMode THEN m ELSE mode

\* setCameraTarget without the orbit-distance reset.
setCameraTarget_NoReset(target, position) ==
    /\ cameraTarget' = [name |-> target, position |-> position]
    /\ UNCHANGED orbitDistance

\* view.py 332-334
setCameraTarget(target, position) ==
    /\ cameraTarget' = [name |-> target, position |-> position]
    /\ orbitDistance' = IF target = "Earth" THEN EarthOrbitDistance
                        ELSE OtherOrbitDistance

\* view.py 352-353 (the draw calls that follow touch no modelled state)
drawScene_GLOBE_VIEW ==
    /\ setCameraTarget("Earth", Origin)
    /\ UNCHANGED satellite_position

\* The tracking scene handing the position of the previous query to the
\* camera target.
drawScene_TRACKING_VIEW_StalePosition(position) ==
    /\ satellite_position' = position
    /\ setCameraTarget(current_satellite,
                       IF satellite_position = None THEN Origin
                       ELSE satellite_position)

\* view.py 369-373: position is the result of get3DCartesianCoordinates.
drawScene_TRACKING_VIEW(position) ==
    /\ satellite_position' = position
    /\ setCameraTarget(current_satellite, position)

\* view.py 387-391
drawScene_EXPLORE_VIEW(position) ==
    /\ setCameraTarget("Earth", Origin)
    /\ satellite_position' = position

\* ---------------------------------------------------------------- actions
\* setScene that also re-centres the orbit angles.
SetScene_ResetsAngles(scene) ==
    /\ IF scene \in SceneView
         THEN /\ setCameraMode(ModeOfScene(scene))
              /\ current_scene' = scene
         ELSE UNCHANGED <<mode, current_scene>>
    /\ theta' = 0
    /\ phi' = 0
    /\ lastEvent' = "setScene"
    /\ UNCHANGED <<frameCalls, leftButtonDown>>
    /\ UNCHANGED <<cameraDistance, orbitDistance, cameraPosXYZ, cameraTarget,
                   isDragging, lastPos, satellite_position, current_satellite,
                   lookAt, wheelCount>>

\* view.py 491-510
SetScene(scene) ==
    /\ IF scene \in SceneView
         THEN /\ setCameraMode(ModeOfScene(scene))
              /\ current_scene' = scene
         ELSE UNCHANGED <<mode, current_scene>>
    /\ lastEvent' = "setScene"
    /\ UNCHANGED <<frameCalls, leftButtonDown>>
    /\ UNCHANGED <<orbitVars, cameraTarget, isDragging, lastPos,
                   satellite_position, current_satellite, lookAt, wheelCount>>

\* The dispatch with a plain else in place of the elif of line 349: every
\* scene that is not TRACKING_VIEW also draws the explore scene.
DrawCalls_ElseExplore(scene) ==
    (IF scene = "GLOBE_VIEW" THEN <<"drawScene_GLOBE_VIEW">> ELSE <<>>)
    \o (IF scene = "TRACKING_VIEW" THEN <<"drawScene_TRACKING_VIEW">>
        ELSE <<"drawScene_EXPLORE_VIEW">>)

\* view.py 345-350: the draw functions paintGL calls for the current scene,
\* an `if` for GLOBE_VIEW followed by an `if / elif` for the other two.
DrawCalls(scene) ==
    (IF scene = "GLOBE_VIEW" THEN <<"drawScene_GLOBE_VIEW">> ELSE <<>>)
    \o (IF scene = "TRACKING_VIEW" THEN <<"drawScene_TRACKING_VIEW">>
        ELSE IF scene = "EXPLORE_VIEW" THEN <<"drawScene_EXPLORE_VIEW">>
        ELSE <<>>)

\* view.py 337-350: one rendered frame. Each draw function stores the camera
\* target, so the last one called decides the target the frame leaves. Camera.update runs first, on the
\* target stored before this frame, then the scene's draw function runs.
PaintGL ==
    /\ lookAt' = Camera_update
    /\ frameCalls' = <<"Camera.update">> \o DrawCalls(current_scene)
    /\ \E position \in SatellitePositions :
         LET drawn == DrawCalls(current_scene)
             last == IF drawn = <<>> THEN "none" ELSE drawn[Len(drawn)]
         IN  IF last = "drawScene_GLOBE_VIEW"
               THEN drawScene_GLOBE_VIEW
               ELSE IF last = "drawScene_TRACKING_VIEW"
                      THEN drawScene_TRACKING_VIEW(position)
                      ELSE IF last = "drawScene_EXPLORE_VIEW"
                             THEN drawScene_EXPLORE_VIEW(position)
                             ELSE UNCHANGED <<cameraTarget, orbitDistance,
                                              satellite_position>>
    /\ lastEvent' = "paintGL"
    /\ UNCHANGED leftButtonDown
    /\ UNCHANGED <<current_scene, mode, theta, phi, cameraDistance,
                   cameraPosXYZ, isDragging, lastPos, current_satellite,
                   wheelCount>>

\* mousePressEvent that switches the camera to ORBIT on a left click.
MousePressEvent_EntersOrbit(button, position) ==
    /\ IF button = "LeftButton"
         THEN /\ mode' = "ORBIT"
              /\ isDragging' = TRUE
              /\ lastPos' = position
         ELSE UNCHANGED <<mode, isDragging, lastPos>>
    /\ lastEvent' = "mousePressEvent"
    /\ leftButtonDown' = (leftButtonDown \/ button = "LeftButton")
    /\ UNCHANGED frameCalls
    /\ UNCHANGED <<current_scene, orbitVars, cameraTarget,
                   satellite_position, current_satellite, lookAt, wheelCount>>

\* view.py 839-843
MousePressEvent(button, position) ==
    /\ IF mode = "ORBIT" /\ button = "LeftButton"
         THEN /\ isDragging' = TRUE
              /\ lastPos' = position
         ELSE UNCHANGED <<isDragging, lastPos>>
    /\ lastEvent' = "mousePressEvent"
    /\ leftButtonDown' = (leftButtonDown \/ button = "LeftButton")
    /\ UNCHANGED frameCalls
    /\ UNCHANGED <<current_scene, mode, orbitVars, cameraTarget,
                   satellite_position, current_satellite, lookAt, wheelCount>>

\* mouseMoveEvent without the mode test of line 846; updateOrbitCamera keeps
\* its own test, so outside ORBIT the angles move unclamped.
MouseMoveEvent_NoModeTest(position) ==
    /\ IF isDragging
         THEN LET dx == position[1] - lastPos[1]
                  dy == position[2] - lastPos[2]
                  newPhi == IF mode = "ORBIT" THEN ClampPhi(phi + dy)
                            ELSE phi + dy
              IN  /\ Abs(theta - dx) <= MaxTheta
                  /\ Abs(phi + dy) <= 4 * PhiLimit
                  /\ theta' = theta - dx
                  /\ phi' = newPhi
                  /\ cameraDistance' = IF mode = "ORBIT"
                                         THEN ClampDistance(cameraDistance)
                                         ELSE cameraDistance
                  /\ cameraPosXYZ' = IF mode = "ORBIT"
                                       THEN OrbitEye(theta - dx, newPhi,
                                                     orbitDistance,
                                                     cameraTarget.position)
                                       ELSE cameraPosXYZ
                  /\ lastPos' = position
         ELSE UNCHANGED <<theta, phi, cameraDistance, cameraPosXYZ, lastPos>>
    /\ lastEvent' = "mouseMoveEvent"
    /\ UNCHANGED <<frameCalls, leftButtonDown>>
    /\ UNCHANGED <<current_scene, mode, orbitDistance, cameraTarget, isDragging,
                   satellite_position, current_satellite, lookAt, wheelCount>>

\* view.py 845-856 with updateOrbitCamera (872-895) inlined; the mode test of
\* line 873 repeats the one of line 846.
MouseMoveEvent(position) ==
    /\ IF mode = "ORBIT" /\ isDragging
         THEN LET dx == position[1] - lastPos[1]
                  dy == position[2] - lastPos[2]
                  newPhi == ClampPhi(phi + dy)
              IN  /\ Abs(theta - dx) <= MaxTheta
                  /\ theta' = theta - dx
                  /\ phi' = newPhi
                  /\ cameraDistance' = ClampDistance(cameraDistance)
                  /\ cameraPosXYZ' = OrbitEye(theta - dx, newPhi, orbitDistance,
                                              cameraTarget.position)
                  /\ lastPos' = position
         ELSE UNCHANGED <<theta, phi, cameraDistance, cameraPosXYZ, lastPos>>
    /\ lastEvent' = "mouseMoveEvent"
    /\ UNCHANGED <<frameCalls, leftButtonDown>>
    /\ UNCHANGED <<current_scene, mode, orbitDistance, cameraTarget, isDragging,
                   satellite_position, current_satellite, lookAt, wheelCount>>

\* view.py 858-861
MouseReleaseEvent(button) ==
    /\ IF mode = "ORBIT" /\ button = "LeftButton"
         THEN isDragging' = FALSE
         ELSE UNCHANGED isDragging
    /\ lastEvent' = "mouseReleaseEvent"
    /\ leftButtonDown' = (leftButtonDown /\ button # "LeftButton")
    /\ UNCHANGED frameCalls
    /\ UNCHANGED <<current_scene, mode, orbitVars, cameraTarget, lastPos,
                   satellite_position, current_satellite, lookAt, wheelCount>>

\* view.py 863-870: the calls to updateOrbitCamera and update are commented
\* out, so the handler stores the scrolled distance as computed.
WheelEvent(scrollDistance) ==
    /\ IF mode = "ORBIT"
         THEN /\ wheelCount < MaxWheelEvents
              /\ wheelCount' = wheelCount + 1
              /\ cameraDistance' = ScrolledDistance(cameraDistance,
                                                    scrollDistance)
         ELSE UNCHANGED <<cameraDistance, wheelCount>>
    /\ lastEvent' = "wheelEvent"
    /\ UNCHANGED <<frameCalls, leftButtonDown>>
    /\ UNCHANGED <<current_scene, mode, theta, phi, orbitDistance, cameraPosXYZ,
                   cameraTarget, isDragging, lastPos, satellite_position,
                   current_satellite, lookAt>>

\* The controller selects another satellite (controller.current_satellite).
SelectSatellite(name) ==
    /\ name # current_satellite
    /\ current_satellite' = name
    /\ lastEvent' = "selectSatellite"
    /\ UNCHANGED <<frameCalls, leftButtonDown>>
    /\ UNCHANGED <<current_scene, mode, orbitVars, cameraTarget, isDragging,
                   lastPos, satellite_position, lookAt, wheelCount>>

\* The view as the application drives it: scene changes, frames, input.
Next ==
    \/ \E s \in SceneArgs : SetScene(s)
    \/ PaintGL
    \/ \E b \in Buttons, p \in PointerPositions : MousePressEvent(b, p)
    \/ \E p \in PointerPositions : MouseMoveEvent(p)
    \/ \E b \in Buttons : MouseReleaseEvent(b)
    \/ \E s \in ScrollDeltas : WheelEvent(s)
    \/ \E n \in SatelliteNames : SelectSatellite(n)

Spec == Init /\ [][Next]_vars

TypeOK ==
    /\ current_scene \in SceneView
    /\ mode \in CameraMode
    /\ theta \in -MaxTheta .. MaxTheta
    /\ phi \in Int
    /\ cameraDistance[2] > 0
    /\ isDragging \in BOOLEAN
    /\ wheelCount \in 0 .. MaxWheelEvents

\* ------------------------------------------------------------------ claims
InputHandlers ==
    {"mousePressEvent", "mouseMoveEvent", "mouseReleaseEvent", "wheelEvent"}
EarthTarget == [name |-> "Earth", position |-> Origin]

\* C1: the stored pitch phi always lies in [-89, 89] degrees.
C1_PitchBound ==
    /\ -(2 * PhiLimit) <= phi
    /\ phi <= 2 * PhiLimit

\* A drag has driven the pitch into the lower clamp.
C1_Witness ==
    /\ lastEvent = "mouseMoveEvent"
    /\ mode = "ORBIT"
    /\ phi = -(2 * PhiLimit)

\* C2: the stored cameraDistance always lies in
\* [minCameraAltitude, maxCameraAltitude], from construction on.
C2_DistanceBound ==
    /\ RatLeq(RatOfInt(minCameraAltitude), cameraDistance)
    /\ RatLeq(cameraDistance, RatOfInt(maxCameraAltitude))

\* C3: a wheel event handled in ORBIT mode whose scrolled distance falls
\* below minCameraAltitude leaves exactly minCameraAltitude stored.
C3_ScrollClampsAtMin ==
    [][\A s \in ScrollDeltas :
         ( /\ WheelEvent(s)
           /\ mode = "ORBIT"
           /\ RatLess(ScrolledDistance(cameraDistance, s),
                      RatOfInt(minCameraAltitude)) )
         => cameraDistance' = RatOfInt(minCameraAltitude)]_vars

\* C4: construction leaves (EXPLORE_VIEW, ORBIT); setScene(s) for a member s
\* stores s with STATIC for GLOBE_VIEW, FOLLOW for TRACKING_VIEW and ORBIT for
\* EXPLORE_VIEW; so (scene, mode) is always one of those three pairs.
C4_SceneModeMapping ==
    /\ [](/\ <<current_scene, mode>> \in {<<"GLOBE_VIEW", "STATIC">>,
                                          <<"TRACKING_VIEW", "FOLLOW">>,
                                          <<"EXPLORE_VIEW", "ORBIT">>}
          /\ lastEvent = "__init__" =>
               current_scene = "EXPLORE_VIEW" /\ mode = "ORBIT")
    /\ [][\A s \in SceneView :
            SetScene(s) =>
              <<s, current_scene', mode'>> \in
                {<<"GLOBE_VIEW", "GLOBE_VIEW", "STATIC">>,
                 <<"TRACKING_VIEW", "TRACKING_VIEW", "FOLLOW">>,
                 <<"EXPLORE_VIEW", "EXPLORE_VIEW", "ORBIT">>}]_vars

\* setScene has just switched the view to the tracking scene.
C4_Witness ==
    /\ lastEvent = "setScene"
    /\ current_scene = "TRACKING_VIEW"
    /\ mode = "FOLLOW"

\* C5: when setScene(GLOBE_VIEW) or setScene(EXPLORE_VIEW) returns, the camera
\* target is already ("Earth", (0, 0, 0)), before any frame is rendered.
C5_ImmediateFixedTarget ==
    [][\A s \in {"GLOBE_VIEW", "EXPLORE_VIEW"} :
         SetScene(s) => cameraTarget' = EarthTarget]_vars

\* C6: the transform a frame issues is built from the target that frame
\* stores: in FOLLOW and ORBIT mode the target position the look-at uses is
\* the position of the camera target when the frame ends.
C6_FrameOrdering ==
    lastEvent = "paintGL" =>
      /\ mode = "FOLLOW" => lookAt.eye = Fixed(cameraTarget.position)
      /\ mode = "ORBIT" => lookAt.center = Fixed(cameraTarget.position)

\* C7: after a frame in GLOBE_VIEW or EXPLORE_VIEW the target is
\* ("Earth", (0, 0, 0)); after a frame in TRACKING_VIEW it is the current
\* satellite's name with the position queried in that frame.
C7_TargetAfterFrame ==
    lastEvent = "paintGL" =>
      /\ current_scene \in {"GLOBE_VIEW", "EXPLORE_VIEW"} =>
           cameraTarget = EarthTarget
      /\ current_scene = "TRACKING_VIEW" =>
           cameraTarget = [name |-> current_satellite,
                           position |-> satellite_position]

\* A tracking frame has stored a live satellite target.
C7_Witness ==
    /\ lastEvent = "paintGL"
    /\ current_scene = "TRACKING_VIEW"
    /\ cameraTarget = [name |-> "Satellite-2", position |-> <<0, 7, 7>>]
    /\ lookAt.eye = Fixed(<<100, 0, 0>>)

\* C8: every setCameraTarget(name, position) call (one per frame, with the
\* arguments the scene's draw function passes) leaves the target equal to
\* exactly (name, position) and the orbit distance 20 for "Earth", 1 for any
\* other name.
C8_TargetReplacedOrbitReset ==
    [][lastEvent' = "paintGL" =>
         \E name \in {"Earth"} \cup SatelliteNames,
            position \in {Origin} \cup SatellitePositions :
           /\ IF current_scene = "TRACKING_VIEW"
                THEN name = current_satellite /\ position = satellite_position'
                ELSE name = "Earth" /\ position = Origin
           /\ cameraTarget' = [name |-> name, position |-> position]
           /\ orbitDistance' = IF name = "Earth" THEN 20 ELSE 1]_vars

\* The target went from Satellite-1 at (100, 0, 0) (still visible as the
\* center of this frame's look-at) back to Earth, orbit distance 20.
C8_Witness ==
    /\ lastEvent = "paintGL"
    /\ mode = "ORBIT"
    /\ lookAt.center = Fixed(<<100, 0, 0>>)
    /\ cameraTarget = EarthTarget
    /\ orbitDistance = 20

\* C9: setScene (and the setCameraMode call inside it) leaves theta, phi,
\* cameraDistance, orbitDistance and cameraPosXYZ as they were.
C9_ModeSwitchKeepsOrbit ==
    [][lastEvent' = "setScene" =>
         UNCHANGED <<theta, phi, cameraDistance, orbitDistance,
                     cameraPosXYZ>>]_vars

\* Back in ORBIT after a frame was rendered in STATIC mode, with the angles
\* and the distance a drag had left.
C9_Witness ==
    /\ lastEvent = "setScene"
    /\ mode = "ORBIT"
    /\ lookAt.eye = Fixed(<<0, 0, 30>>)
    /\ theta = -3
    /\ phi = 2 * PhiLimit
    /\ cameraDistance = RatOfInt(minCameraAltitude)

\* C10: while the mode is STATIC or FOLLOW every mouse press, move, release
\* and wheel event leaves theta, phi, cameraDistance, cameraPosXYZ, isDragging
\* and lastPos unchanged.
C10_InputNoOpOutsideOrbit ==
    [][(mode # "ORBIT" /\ lastEvent' \in InputHandlers) =>
         UNCHANGED <<theta, phi, cameraDistance, cameraPosXYZ, isDragging,
                     lastPos>>]_vars

\* A pointer move arrived in FOLLOW mode while a drag was still open.
C10_Witness ==
    /\ lastEvent = "mouseMoveEvent"
    /\ mode = "FOLLOW"
    /\ isDragging
    /\ theta = -3
\* C11: the radius of a recomputed Orbit eye is the stored cameraDistance,
\* the value wheel events update. The eye the handler stores has an integer
\* radius, so it can only agree with an integer cameraDistance.
C11_OrbitEyeUsesScrollDistance ==
    (lastEvent = "mouseMoveEvent" /\ mode = "ORBIT" /\ isDragging) =>
      /\ cameraDistance[2] = 1
      /\ cameraPosXYZ = OrbitEye(theta, phi, cameraDistance[1],
                                 cameraTarget.position)

\* C12: in FOLLOW mode the look-at of a frame has the target position (as
\* Camera.update reads it) as its center, an eye away from that position, and
\* the up vector (0, 0, 1).
C12_FollowLookAt ==
    [][(lastEvent' = "paintGL" /\ mode = "FOLLOW") =>
         /\ lookAt'.center = Fixed(cameraTarget.position)
         /\ lookAt'.eye # Fixed(cameraTarget.position)
         /\ lookAt'.up = <<0, 0, 1>>]_vars

\* C13: every frame rendered in STATIC mode issues eye (0, 0, 30),
\* center (0, 0, 0), up (0, 0, 1), whatever the target and orbit parameters.
C13_StaticLookAt ==
    (lastEvent = "paintGL" /\ mode = "STATIC") =>
      lookAt = [eye |-> <<0, 0, 30 * Unit>>, center |-> <<0, 0, 0>>,
                up |-> <<0, 0, 1>>]

\* A STATIC frame rendered after a tracking frame left a satellite target
\* and after a drag moved the angles.
C13_Witness ==
    /\ lastEvent = "paintGL"
    /\ mode = "STATIC"
    /\ satellite_position = <<100, 0, 0>>
    /\ theta = -3
    /\ phi = 2 * PhiLimit
    /\ lookAt.eye = <<0, 0, 30 * Unit>>

\* C14: an Orbit eye recomputed with theta = 0 and phi = 0 is the target
\* position plus (0, 0, d) for the orbit distance d in force; for the target
\* at the origin and d = Earth radius + 10 it is (0, 0, Earth radius + 10).
C14_OrbitEyeAtZeroAngles ==
    (lastEvent = "mouseMoveEvent" /\ mode = "ORBIT" /\ isDragging
       /\ theta = 0 /\ phi = 0) =>
      /\ cameraPosXYZ = << cameraTarget.position[1] * Unit,
                           cameraTarget.position[2] * Unit,
                           (cameraTarget.position[3] + orbitDistance) * Unit >>
      /\ (cameraTarget.position = Origin /\ orbitDistance = EarthRadius + 10) =>
           cameraPosXYZ = <<0, 0, (EarthRadius + 10) * Unit>>

\* A zero-delta drag move right after construction recomputed the eye.
C14_Witness ==
    /\ lastEvent = "mouseMoveEvent"
    /\ mode = "ORBIT"
    /\ isDragging
    /\ theta = 0
    /\ phi = 0
    /\ orbitDistance = EarthRadius + 10
    /\ cameraPosXYZ = <<0, 0, (EarthRadius + 10) * Unit>>

\* C15: a drag move by (dx, dy) handled in ORBIT mode sets theta to
\* theta - dx / 2 (never clamped), phi to clamp(phi + dy / 2, -89, 89),
\* lastPos to the new pointer position, and changes neither cameraDistance
\* nor the mode. Angles are in half degrees.
C15_DragUpdate ==
    [][\A p \in PointerPositions :
         (MouseMoveEvent(p) /\ mode = "ORBIT" /\ isDragging) =>
           LET dx == p[1] - lastPos[1]
               dy == p[2] - lastPos[2]
           IN  /\ theta' = theta - dx
               /\ phi' = IF phi + dy > 178 THEN 178
                         ELSE IF phi + dy < -178 THEN -178 ELSE phi + dy
               /\ lastPos' = p
               /\ cameraDistance' = cameraDistance
               /\ mode' = mode]_vars

\* C16: the camera mode and the scene change only in setScene; frames and
\* mouse and wheel events leave both unchanged.
C16_NoInternalModeTransitions ==
    [][lastEvent' # "setScene" =>
         (mode' = mode /\ current_scene' = current_scene)]_vars

\* A frame has been rendered in FOLLOW mode while a drag was still open, and
\* mode and scene are still the tracking pair.
C16_Witness ==
    /\ lastEvent = "paintGL"
    /\ mode = "FOLLOW"
    /\ current_scene = "TRACKING_VIEW"
    /\ isDragging
    /\ cameraTarget.name = "Satellite-1"

\* C17: the eye of every frame rendered in ORBIT mode is the spherical
\* position given by theta, phi, the orbit distance and the target position
\* as they are when Camera.update runs.
C17_OrbitViewFromCurrentState ==
    [][(lastEvent' = "paintGL" /\ mode = "ORBIT") =>
         lookAt'.eye = OrbitEye(theta, phi, orbitDistance,
                                cameraTarget.position)]_vars

\* C18: isDragging is true only while the left button is held down.
C18_DragFollowsLeftButton ==
    isDragging => leftButtonDown

\* C19: every frame calls Camera.update once and then exactly the draw
\* function of the current scene.
C19_OneScenePerFrame ==
    lastEvent = "paintGL" =>
      \/ current_scene = "GLOBE_VIEW"
           /\ frameCalls = <<"Camera.update", "drawScene_GLOBE_VIEW">>
      \/ current_scene = "TRACKING_VIEW"
           /\ frameCalls = <<"Camera.update", "drawScene_TRACKING_VIEW">>
      \/ current_scene = "EXPLORE_VIEW"
           /\ frameCalls = <<"Camera.update", "drawScene_EXPLORE_VIEW">>

\* A globe frame has drawn the globe scene and nothing else.
C19_Witness ==
    /\ lastEvent = "paintGL"
    /\ current_scene = "GLOBE_VIEW"
    /\ frameCalls = <<"Camera.update", "drawScene_GLOBE_VIEW">>
    /\ cameraTarget = EarthTarget
====
